---- MODULE Spec2Model ----
(***************************************************************************)
(* Model of the query-synthesis-and-verification loop of finance_advisor:  *)
(* agent.sql_query (src/agent.py) and the store primitive                  *)
(* db.execute_readonly_query (src/db.py).                                  *)
(*                                                                         *)
(* A Python str is a sequence of one-character strings, so that            *)
(* str.replace, len, rstrip and f-string formatting are computed on        *)
(* characters as the interpreter computes them.                            *)
(***************************************************************************)
EXTENDS Integers, Sequences, FiniteSets, TLC

\* ---------------------------------------------------------------- bounds
\* Tenants of the fixture store have the ids FirstTenant .. FirstTenant+NumTenants-1.
NumTenants == 2

\* ------------------------------------------------------------- constants
\* main.py invokes the graph with user_id 7.
FirstTenant == 7
\* agent.py: max_retries = 3
max_retries == 3

\* ---------------------------------------------------------- string data
\* '<user_id>'
PLACEHOLDER == <<"<","u","s","e","r","_","i","d",">">>
\* 'SELECT'
KW_SELECT == <<"S","E","L","E","C","T">>
\* 'FROM'
KW_FROM == <<"F","R","O","M">>
\* 'WHERE'
KW_WHERE == <<"W","H","E","R","E">>
\* 'OR'
KW_OR == <<"O","R">>
\* 'DROP'
KW_DROP == <<"D","R","O","P">>
\* 'TABLE'
KW_TABLE == <<"T","A","B","L","E">>
\* 'DELETE'
KW_DELETE == <<"D","E","L","E","T","E">>
\* '='
KW_EQ == <<"=">>
\* '*'
KW_STAR == <<"*">>
\* 'users'
T_users == <<"u","s","e","r","s">>
\* 'deals'
T_deals == <<"d","e","a","l","s">>
\* 'user_id'
C_user_id == <<"u","s","e","r","_","i","d">>
\* 'name'
C_name == <<"n","a","m","e">>
\* 'balance'
C_balance == <<"b","a","l","a","n","c","e">>
\* 'id'
C_id == <<"i","d">>
\* 'profit'
C_profit == <<"p","r","o","f","i","t">>
\* 'no such column: '
MSG_NO_COLUMN == <<"n","o"," ","s","u","c","h"," ","c","o","l","u","m","n",":"," ">>
\* 'no such table: '
MSG_NO_TABLE == <<"n","o"," ","s","u","c","h"," ","t","a","b","l","e",":"," ">>
\* 'near "'
MSG_NEAR == <<"n","e","a","r"," ","\"">>
\* '": syntax error'
MSG_SYNTAX == <<"\"",":"," ","s","y","n","t","a","x"," ","e","r","r","o","r">>
\* 'unable to open database file'
MSG_CANNOT_OPEN == <<"u","n","a","b","l","e"," ","t","o"," ","o","p","e","n"," ","d","a","t","a","b","a","s","e"," ","f","i","l","e">>
\* 'An error occurred: '
ERR_PREFIX == <<"A","n"," ","e","r","r","o","r"," ","o","c","c","u","r","r","e","d",":"," ">>
\* 'The SQL query failed to execute. Error: '
FEEDBACK_PREFIX == <<"T","h","e"," ","S","Q","L"," ","q","u","e","r","y"," ","f","a","i","l","e","d"," ","t","o"," ","e","x","e","c","u","t","e","."," ","E","r","r","o","r",":"," ">>
\* 'No results found.'
NO_RESULTS == <<"N","o"," ","r","e","s","u","l","t","s"," ","f","o","u","n","d",".">>
\* ' | '
SEP == <<" ","|"," ">>
\* 'SELECT * FROM users WHERE user_id = <user_id>'
Q_ALL_COLS == <<"S","E","L","E","C","T"," ","*"," ","F","R","O","M"," ","u","s","e","r","s"," ","W","H","E","R","E"," ","u","s","e","r","_","i","d"," ","="," ","<","u","s","e","r","_","i","d",">">>
\* 'SELECT * FROM deals WHERE user_id = <user_id> OR user_id = 8'
Q_OTHER == <<"S","E","L","E","C","T"," ","*"," ","F","R","O","M"," ","d","e","a","l","s"," ","W","H","E","R","E"," ","u","s","e","r","_","i","d"," ","="," ","<","u","s","e","r","_","i","d",">"," ","O","R"," ","u","s","e","r","_","i","d"," ","="," ","8">>
\* 'SELECT profi FROM deals WHERE user_id = <user_id>'
Q_BAD_COLUMN == <<"S","E","L","E","C","T"," ","p","r","o","f","i"," ","F","R","O","M"," ","d","e","a","l","s"," ","W","H","E","R","E"," ","u","s","e","r","_","i","d"," ","="," ","<","u","s","e","r","_","i","d",">">>
\* 'SELECT name FROM users WHERE user_id = <user_id>'
Q_NAME == <<"S","E","L","E","C","T"," ","n","a","m","e"," ","F","R","O","M"," ","u","s","e","r","s"," ","W","H","E","R","E"," ","u","s","e","r","_","i","d"," ","="," ","<","u","s","e","r","_","i","d",">">>
\* 'INTEGER'
TY_INTEGER == <<"I","N","T","E","G","E","R">>
\* 'REAL'
TY_REAL == <<"R","E","A","L">>
\* 'TEXT'
TY_TEXT == <<"T","E","X","T">>
\* 'Table: '
SCHEMA_TABLE == <<"T","a","b","l","e",":"," ">>
\* '  - '
SCHEMA_COL == <<" "," ","-"," ">>
\* 'PRIMARY KEY'
SCHEMA_PK == <<"P","R","I","M","A","R","Y"," ","K","E","Y">>
\* '\n## Table: users\nHolds information about the user account.\n'
DB_DESCRIPTION == <<"\n","#","#"," ","T","a","b","l","e",":"," ","u","s","e","r","s","\n","H","o","l","d","s"," ","i","n","f","o","r","m","a","t","i","o","n"," ","a","b","o","u","t"," ","t","h","e"," ","u","s","e","r"," ","a","c","c","o","u","n","t",".","\n">>
\* 'What is my balance?'
USER_QUESTION == <<"W","h","a","t"," ","i","s"," ","m","y"," ","b","a","l","a","n","c","e","?">>
\* 'DROP TABLE deals'
Q_DROP == <<"D","R","O","P"," ","T","A","B","L","E"," ","d","e","a","l","s">>
\* 'DELETE FROM deals WHERE user_id = <user_id>'
Q_DELETE == <<"D","E","L","E","T","E"," ","F","R","O","M"," ","d","e","a","l","s"," ","W","H","E","R","E"," ","u","s","e","r","_","i","d"," ","="," ","<","u","s","e","r","_","i","d",">">>
\* 'no user_id filter'
FB_NO_FILTER == <<"n","o"," ","u","s","e","r","_","i","d"," ","f","i","l","t","e","r">>

Digits == <<"0","1","2","3","4","5","6","7","8","9">>

\* ------------------------------------------------------- str operations
\* s[i..] starts with pat
MatchAt(s, i, pat) ==
    /\ i + Len(pat) - 1 <= Len(s)
    /\ \A k \in 1..Len(pat) : s[i + k - 1] = pat[k]

RECURSIVE ReplaceFrom(_, _, _, _)
ReplaceFrom(s, i, old, new) ==
    IF i > Len(s) THEN <<>>
    ELSE IF MatchAt(s, i, old)
         THEN new \o ReplaceFrom(s, i + Len(old), old, new)
         ELSE <<s[i]>> \o ReplaceFrom(s, i + 1, old, new)

\* str.replace(old, new) for a non-empty old: every non-overlapping
\* occurrence, scanning from the left.
StrReplace(s, old, new) == ReplaceFrom(s, 1, old, new)

RECURSIVE StrNat(_)
StrNat(n) == IF n < 10 THEN <<Digits[n + 1]>>
             ELSE StrNat(n \div 10) \o <<Digits[(n % 10) + 1]>>

\* str(n) of an int
StrInt(n) == IF n < 0 THEN <<"-">> \o StrNat(-n) ELSE StrNat(n)

\* s.rstrip(chars): drop the longest suffix made of characters of chars
RECURSIVE StrRStrip(_, _)
StrRStrip(s, chars) ==
    IF Len(s) > 0 /\ \E k \in 1..Len(chars) : chars[k] = s[Len(s)]
    THEN StrRStrip(SubSeq(s, 1, Len(s) - 1), chars)
    ELSE s

\* the whitespace-separated words of s
RECURSIVE SplitFrom(_, _, _)
SplitFrom(s, i, cur) ==
    IF i > Len(s) THEN (IF cur = <<>> THEN <<>> ELSE <<cur>>)
    ELSE IF s[i] = " "
         THEN (IF cur = <<>> THEN <<>> ELSE <<cur>>) \o SplitFrom(s, i + 1, <<>>)
         ELSE SplitFrom(s, i + 1, Append(cur, s[i]))

Words(s) == SplitFrom(s, 1, <<>>)

DigitValue(c) == CHOOSE d \in 0..9 : Digits[d + 1] = c

IsNumber(w) == Len(w) > 0 /\ \A k \in 1..Len(w) : \E d \in 1..10 : Digits[d] = w[k]

RECURSIVE ParseNat(_)
ParseNat(w) == IF Len(w) = 0 THEN 0
               ELSE 10 * ParseNat(SubSeq(w, 1, Len(w) - 1)) + DigitValue(w[Len(w)])

\* ------------------------------------------------------------ the store
\* A column value: an INTEGER n, a REAL n.0 or a TEXT s.
IntVal(n) == [isText |-> FALSE, isReal |-> FALSE, n |-> n, s |-> <<>>]
RealVal(n) == [isText |-> FALSE, isReal |-> TRUE, n |-> n, s |-> <<>>]
TextVal(s) == [isText |-> TRUE, isReal |-> FALSE, n |-> 0, s |-> s]

Tenants == FirstTenant .. (FirstTenant + NumTenants - 1)

TenantNames == << <<"a","|">>, <<"b"," ">>, <<"c">> >>

\* The users table as init_and_populate_db leaves it: one row per tenant
\* (columns user_id, name, balance of the CREATE TABLE statement).
UsersRows == [k \in 1..NumTenants |->
                << IntVal(FirstTenant + k - 1),
                   TextVal(TenantNames[((k - 1) % Len(TenantNames)) + 1]),
                   RealVal(10 * k) >>]

\* The deals table (columns id, user_id, profit): the k-th tenant has
\* 2*(k-1) deals, so the first tenant has none.
RECURSIVE DealsRowsOf(_)
DealsRowsOf(k) ==
    IF k = 0 THEN <<>>
    ELSE LET before == DealsRowsOf(k - 1)
             uid == FirstTenant + k - 1
         IN before \o
            [j \in 1..(2 * (k - 1)) |->
                << IntVal(Len(before) + j), IntVal(uid), RealVal(5 * j) >>]

\* finance.db after init_and_populate_db: a sequence of tables.
InitialDb ==
    << [name |-> T_deals, cols |-> <<C_id, C_user_id, C_profit>>,
        types |-> <<TY_INTEGER, TY_INTEGER, TY_REAL>>, pk |-> C_id,
        rows |-> DealsRowsOf(NumTenants)],
       [name |-> T_users, cols |-> <<C_user_id, C_name, C_balance>>,
        types |-> <<TY_INTEGER, TY_TEXT, TY_REAL>>, pk |-> C_user_id,
        rows |-> UsersRows] >>

HasTable(db, t) == \E i \in 1..Len(db) : db[i].name = t
TableOf(db, t) == db[CHOOSE i \in 1..Len(db) : db[i].name = t]
HasCol(tab, c) == \E i \in 1..Len(tab.cols) : tab.cols[i] = c
ColIndex(tab, c) == CHOOSE i \in 1..Len(tab.cols) : tab.cols[i] = c

RECURSIVE SeqFilter(_, _)
\* the subsequence of s whose indices are in keep
SeqFilter(s, keep) ==
    IF Len(s) = 0 THEN <<>>
    ELSE SeqFilter(SubSeq(s, 1, Len(s) - 1), keep)
         \o (IF Len(s) \in keep THEN <<s[Len(s)]>> ELSE <<>>)

\* ---------------------------------------------- the SQL engine (sqlite3)
\* The statements cursor.execute understands here:
\*   SELECT <col>|* FROM <table> [WHERE <col> = <n> {OR <col> = <n>}]
\*   DELETE FROM <table> [WHERE ...]
\*   DROP TABLE <table>
\* Anything else is a syntax error.

RECURSIVE CondsParse(_, _)
\* w[j..] is  <col> = <n> {OR <col> = <n>}
CondsParse(w, j) ==
    /\ j + 2 <= Len(w)
    /\ w[j + 1] = KW_EQ
    /\ IsNumber(w[j + 2])
    /\ \/ j + 2 = Len(w)
       \/ /\ j + 3 <= Len(w)
          /\ w[j + 3] = KW_OR
          /\ CondsParse(w, j + 4)

\* w[i..] is empty or a WHERE clause
WhereParse(w, i) == i > Len(w) \/ (w[i] = KW_WHERE /\ CondsParse(w, i + 1))

RECURSIVE CondCols(_, _)
\* the columns a parsed WHERE clause names
CondCols(w, j) == IF j > Len(w) THEN {} ELSE {w[j]} \cup CondCols(w, j + 4)

RECURSIVE CondsHold(_, _, _, _)
CondsHold(tab, row, w, j) ==
    IF j > Len(w) THEN FALSE
    ELSE \/ LET v == row[ColIndex(tab, w[j])]
            IN ~v.isText /\ v.n = ParseNat(w[j + 2])
         \/ CondsHold(tab, row, w, j + 4)

\* the rows of tab a statement with the WHERE clause w[i..] applies to
Selected(tab, w, i) ==
    IF i > Len(w) THEN 1..Len(tab.rows)
    ELSE {r \in 1..Len(tab.rows) : CondsHold(tab, tab.rows[r], w, i + 1)}

SqlError(msg, db) == [error |-> TRUE, msg |-> msg, rows |-> <<>>, db |-> db, dml |-> FALSE]
SqlRows(rows, db, dml) == [error |-> FALSE, msg |-> <<>>, rows |-> rows, db |-> db, dml |-> dml]
SyntaxError(w, db) == SqlError(MSG_NEAR \o w \o MSG_SYNTAX, db)

\* sqlite3.Row -> dict(row): the columns in select order
RowDict(tab, row, cols) == [c \in 1..Len(cols) |->
                              [key |-> cols[c], value |-> row[ColIndex(tab, cols[c])]]]

SqlSelect(db, w) ==
    IF ~(Len(w) >= 4 /\ w[3] = KW_FROM /\ WhereParse(w, 5))
    THEN SyntaxError(w[Len(w)], db)
    ELSE IF ~HasTable(db, w[4]) THEN SqlError(MSG_NO_TABLE \o w[4], db)
    ELSE LET tab == TableOf(db, w[4])
             cols == IF w[2] = KW_STAR THEN tab.cols ELSE <<w[2]>>
             bad == {c \in ({cols[c] : c \in 1..Len(cols)} \cup CondCols(w, 6)) : ~HasCol(tab, c)}
         IN IF bad # {}
            THEN SqlError(MSG_NO_COLUMN \o (CHOOSE c \in bad : TRUE), db)
            ELSE LET hit == SeqFilter(tab.rows, Selected(tab, w, 5))
                 IN SqlRows([r \in 1..Len(hit) |-> RowDict(tab, hit[r], cols)], db, FALSE)

\* DELETE: the rows go, inside the transaction the sqlite3 module opens
\* implicitly before a data-modifying statement.
SqlDelete(db, w) ==
    IF ~(Len(w) >= 3 /\ w[2] = KW_FROM /\ WhereParse(w, 4))
    THEN SyntaxError(w[Len(w)], db)
    ELSE IF ~HasTable(db, w[3]) THEN SqlError(MSG_NO_TABLE \o w[3], db)
    ELSE LET tab == TableOf(db, w[3])
             bad == {c \in CondCols(w, 5) : ~HasCol(tab, c)}
         IN IF bad # {}
            THEN SqlError(MSG_NO_COLUMN \o (CHOOSE c \in bad : TRUE), db)
            ELSE LET keep == (1..Len(tab.rows)) \ Selected(tab, w, 4)
                     db2 == [i \in 1..Len(db) |->
                               IF db[i].name = w[3]
                               THEN [db[i] EXCEPT !.rows = SeqFilter(tab.rows, keep)]
                               ELSE db[i]]
                 IN SqlRows(<<>>, db2, TRUE)

\* DROP TABLE: a schema statement; the sqlite3 module opens no transaction
\* for it, so it runs in autocommit mode.
SqlDrop(db, w) ==
    IF ~(Len(w) = 3 /\ w[2] = KW_TABLE)
    THEN SyntaxError(w[Len(w)], db)
    ELSE IF ~HasTable(db, w[3]) THEN SqlError(MSG_NO_TABLE \o w[3], db)
    ELSE SqlRows(<<>>, SeqFilter(db, {i \in 1..Len(db) : db[i].name # w[3]}), FALSE)

\* cursor.execute(query); cursor.fetchall()
CursorExecute(db, query) ==
    LET w == Words(query)
    IN IF Len(w) = 0 THEN SqlRows(<<>>, db, FALSE)
       ELSE IF w[1] = KW_SELECT THEN SqlSelect(db, w)
       ELSE IF w[1] = KW_DELETE THEN SqlDelete(db, w)
       ELSE IF w[1] = KW_DROP THEN SqlDrop(db, w)
       ELSE SyntaxError(w[1], db)

\* What execute_readonly_query hands back: a list of dicts, or a str.
ListResult(rows) == [isStr |-> FALSE, rows |-> rows, str |-> <<>>]
StrResult(s) == [isStr |-> TRUE, rows |-> <<>>, str |-> s]

\* conn.close() in the finally clause: no commit was made, so the changes
\* of a pending (implicitly opened) transaction are rolled back; what ran
\* in autocommit mode stays.
ConnClose(db, r) == IF r.dml THEN db ELSE r.db

\* execute_readonly_query(query). canConnect = FALSE: sqlite3.connect
\* raises (it is outside the try), and the exception reaches the caller.
\* A sqlite3.Error of cursor.execute is caught and RETURNED as a str.
execute_readonly_query(db, query, canConnect) ==
    IF ~canConnect
    THEN [raised |-> TRUE, msg |-> MSG_CANNOT_OPEN, result |-> ListResult(<<>>), db |-> db]
    ELSE LET r == CursorExecute(db, query)
         IN [raised |-> FALSE, msg |-> <<>>,
             result |-> IF r.error THEN StrResult(ERR_PREFIX \o r.msg)
                        ELSE ListResult(r.rows),
             db |-> ConnClose(db, r)]

\* -------------------------------------------------- the Result Formatter
\* f"{value}" / str(value) of a column value: a float prints as n.0
StrValue(v) == IF v.isText THEN v.s
               ELSE IF v.isReal THEN StrInt(v.n) \o <<".", "0">>
               ELSE StrInt(v.n)

\* repr(value): a str in quotes (no quote or backslash occurs in the data)
ReprValue(v) == IF v.isText THEN <<"'">> \o v.s \o <<"'">> ELSE StrValue(v)

RECURSIVE JoinSeq(_, _)
\* sep.join(parts)
JoinSeq(parts, sep) ==
    IF Len(parts) = 0 THEN <<>>
    ELSE IF Len(parts) = 1 THEN parts[1]
    ELSE JoinSeq(SubSeq(parts, 1, Len(parts) - 1), sep) \o sep \o parts[Len(parts)]

ReprDict(row) ==
    <<"{">> \o JoinSeq([c \in 1..Len(row) |->
                          <<"'">> \o row[c].key \o <<"'", ":", " ">> \o ReprValue(row[c].value)],
                       <<",", " ">>) \o <<"}">>

\* str(result) of a list of dicts
ReprList(rows) ==
    <<"[">> \o JoinSeq([r \in 1..Len(rows) |-> ReprDict(rows[r])], <<",", " ">>) \o <<"]">>

RECURSIVE RowPairs(_, _)
\* for key, value in row.items(): tool_answer += f"{key}: {value} | "
RowPairs(row, c) ==
    IF c > Len(row) THEN <<>>
    ELSE row[c].key \o <<":", " ">> \o StrValue(row[c].value) \o SEP \o RowPairs(row, c + 1)

\* len(result): rows of a list, characters of a str
ResultLen(result) == IF result.isStr THEN Len(result.str) ELSE Len(result.rows)

\* Mutant of FormatResult: of several rows only the first is rendered.
FormatResult_FirstRowOnly(result) ==
    IF ResultLen(result) = 0 THEN NO_RESULTS
    ELSE IF ResultLen(result) = 1
         THEN StrRStrip(RowPairs(result.rows[1], 1), SEP) \o <<"\n">>
         ELSE IF result.isStr THEN result.str ELSE ReprList(<<result.rows[1]>>)

\* The if/elif/else of sql_query that builds tool_answer from result.
FormatResult(result) ==
    IF ResultLen(result) = 0 THEN NO_RESULTS
    ELSE IF ResultLen(result) = 1
         THEN StrRStrip(RowPairs(result.rows[1], 1), SEP) \o <<"\n">>
         ELSE IF result.isStr THEN result.str ELSE ReprList(result.rows)

\* A str of one character has no .items(): the for loop raises.
FormatRaises(result) == result.isStr /\ Len(result.str) = 1

\* ------------------------------------------------ schema and description
\* The lines get_db_schema appends for one table: the header, a line per
\* column of PRAGMA table_info, an empty line.
TableSchemaLines(tab) ==
    << SCHEMA_TABLE \o tab.name >>
    \o [c \in 1..Len(tab.cols) |->
          SCHEMA_COL \o tab.cols[c] \o <<" ", "(">> \o tab.types[c] \o <<")", " ">>
              \o (IF tab.cols[c] = tab.pk THEN SCHEMA_PK ELSE <<>>)]
    \o << <<>> >>

RECURSIVE SchemaLines(_, _)
SchemaLines(db, i) ==
    IF i > Len(db) THEN <<>> ELSE TableSchemaLines(db[i]) \o SchemaLines(db, i + 1)

\* get_db_schema(): "\n".join(schema) over the tables of sqlite_master
get_db_schema(db) == JoinSeq(SchemaLines(db, 1), <<"\n">>)

\* get_db_description(): a fixed literal (here cut after its first
\* paragraph; nothing reads its contents)
get_db_description == DB_DESCRIPTION

\* ----------------------------------------------------- the collaborators
\* Candidate queries the Synthesizer (an LLM) may answer with.
Candidates == {Q_ALL_COLS, Q_NAME, Q_OTHER, Q_BAD_COLUMN, Q_DROP, Q_DELETE}

\* SQLEvaluation.feedback: a str, "" by default
Feedbacks == {<<>>, FB_NO_FILTER}

\* SQLEvaluation values the Verifier (an LLM) may answer with. feedback is
\* read only in the else branch, so an approving verdict is given with the
\* field's default alone.
SQLEvaluation ==
    [is_correct : {FALSE}, feedback : Feedbacks]
        \cup [is_correct : {TRUE}, feedback : {<<>>}]

\* ------------------------------------------------------------ sql_query
VARIABLES
    pc,            \* where sql_query is: "loop", "verify", "branch", "done", "fault"
    user_id,       \* state["user_id"]
    db,            \* the contents of finance.db
    is_correct, retries, feedback, sql_response,   \* locals of sql_query
    evaluation,    \* the Verifier's last answer
    ret,           \* the dict sql_query returns; NoReturn before it returns
    synthCalls,    \* per Synthesizer call: what the prompt held, what came back
    verifyCalls,   \* per Verifier call: the query shown, the verdict
    execCalls,     \* per execute_readonly_query call: argument and outcome
    messages,      \* state["messages"]: the conversation, the question last
    db_schema, db_description, curreent_time_ms,   \* locals set before the loop
    clock,         \* what datetime.now() would give, in milliseconds
    fault          \* the exception a Synthesizer or Verifier call raised, or ""

\* sql_query has not returned
NoReturn == [k \in {} |-> TRUE]

vars == <<pc, user_id, db, is_correct, retries, feedback, sql_response,
          evaluation, ret, synthCalls, verifyCalls, execCalls,
          messages, db_schema, db_description, curreent_time_ms, clock, fault>>

\* What sql_query fixes before the loop and only reads afterwards.
context == <<messages, user_id, db_schema, db_description, curreent_time_ms>>

\* user_message = state["messages"][-1]
user_message == messages[Len(messages)]

\* sql_query up to the while statement (lines 166-174), on the store
\* init_and_populate_db has populated.
Init ==
    /\ pc = "loop"
    /\ user_id \in Tenants
    /\ db = InitialDb
    /\ is_correct = FALSE
    /\ retries = 0
    /\ feedback = <<>>
    /\ sql_response = <<>>
    /\ evaluation = [is_correct |-> FALSE, feedback |-> <<>>]
    /\ ret = NoReturn
    /\ synthCalls = <<>>
    /\ verifyCalls = <<>>
    /\ execCalls = <<>>
    /\ messages = <<USER_QUESTION>>
    /\ db_schema = get_db_schema(InitialDb)
    /\ db_description = get_db_description
    /\ clock = 0
    /\ curreent_time_ms = 0
    /\ fault = ""

\* Mutant of LoopCondition: the retry bound is not tested.
LoopCondition_Unbounded == ~is_correct

\* The while condition
LoopCondition == ~is_correct /\ retries < max_retries

\* Mutant of PreviousResponse: the earlier candidate is not passed back.
PreviousResponse_Empty == <<>>

\* previous_response=sql_response
PreviousResponse == sql_response

\* Mutant of PromptTime: the time is read anew for every prompt.
PromptTime_Now == clock

\* current_time_ms=curreent_time_ms
PromptTime == curreent_time_ms

\* One pass of the while test and the Synthesizer call.
Generate ==
    /\ pc = "loop"
    /\ LoopCondition
    /\ \E q \in Candidates :
         /\ synthCalls' = Append(synthCalls,
                [previous_response |-> PreviousResponse, feedback |-> feedback,
                 schema |-> db_schema, db_description |-> db_description,
                 current_time_ms |-> PromptTime, messages |-> messages,
                 retries |-> retries, sql_query |-> q])
         /\ sql_response' = q
    /\ pc' = "verify"
    /\ clock' = clock + 1
    /\ UNCHANGED <<context, fault, db, is_correct, retries, feedback, evaluation, ret,
                   verifyCalls, execCalls>>

\* The Verifier call.
Verify ==
    /\ pc = "verify"
    /\ \E v \in SQLEvaluation :
         /\ verifyCalls' = Append(verifyCalls,
                [sql_query |-> sql_response, user_message |-> user_message,
                 schema |-> db_schema, current_time_ms |-> PromptTime,
                 messages |-> messages,
                 is_correct |-> v.is_correct, feedback |-> v.feedback])
         /\ evaluation' = v
    /\ pc' = "branch"
    /\ clock' = clock + 1
    /\ UNCHANGED <<context, fault, db, is_correct, retries, feedback, sql_response, ret,
                   synthCalls, execCalls>>

\* Mutant of SynthesisFault: the exception is caught like an execution
\* error, costs a retry and the loop goes on.
SynthesisFault_Caught ==
    /\ pc = "loop"
    /\ LoopCondition
    /\ fault' = "SynthesisFault"
    /\ retries' = retries + 1
    /\ pc' = "loop"
    /\ clock' = clock + 1
    /\ UNCHANGED <<context, db, is_correct, feedback, sql_response, evaluation,
                   ret, synthCalls, verifyCalls, execCalls>>

\* llm.with_structured_output(SQLGeneration).invoke raises (no structurally
\* valid value came back): nothing in sql_query catches it.
SynthesisFault ==
    /\ pc = "loop"
    /\ LoopCondition
    /\ fault' = "SynthesisFault"
    /\ pc' = "fault"
    /\ clock' = clock + 1
    /\ UNCHANGED <<context, db, is_correct, retries, feedback, sql_response,
                   evaluation, ret, synthCalls, verifyCalls, execCalls>>

\* llm.with_structured_output(SQLEvaluation).invoke raises: the call is
\* outside the try block, so the exception leaves sql_query.
VerificationFault ==
    /\ pc = "verify"
    /\ fault' = "VerificationFault"
    /\ pc' = "fault"
    /\ clock' = clock + 1
    /\ UNCHANGED <<context, db, is_correct, retries, feedback, sql_response,
                   evaluation, ret, synthCalls, verifyCalls, execCalls>>

\* Mutant of Substituted: the candidate is executed as generated.
Substituted_NotApplied == sql_response

\* sql_response.replace("<user_id>", str(state["user_id"]))
Substituted == StrReplace(sql_response, PLACEHOLDER, StrInt(user_id))

\* Mutant of Approved: the candidate is executed whatever the verdict.
Approved_Always == TRUE

\* if evaluation.is_correct:
Approved == evaluation.is_correct

\* Mutant of ReturnAnswer: the return statement is missing, so control
\* falls through to retries += 1 and the loop goes on.
ReturnAnswer_FallsThrough(result) ==
    /\ ret' = ret
    /\ retries' = retries + 1
    /\ pc' = "loop"
    /\ UNCHANGED <<feedback, is_correct>>

\* The formatter and return {"tool_answer": tool_answer}
ReturnAnswer(result) ==
    /\ ret' = [tool_answer |-> FormatResult(result)]
    /\ pc' = "done"
    /\ UNCHANGED <<feedback, is_correct, retries>>

\* if evaluation.is_correct: the try block, its except clause, retries += 1.
Execute ==
    /\ pc = "branch"
    /\ Approved
    /\ \E canConnect \in BOOLEAN :
         LET e == execute_readonly_query(db, Substituted, canConnect)
             raises == e.raised \/ FormatRaises(e.result)
         IN /\ execCalls' = Append(execCalls,
                   [query |-> Substituted, attempt |-> Len(synthCalls),
                    approved |-> evaluation.is_correct,
                    raised |-> e.raised, msg |-> e.msg, result |-> e.result])
            /\ db' = e.db
            /\ IF raises
               THEN /\ feedback' = FEEDBACK_PREFIX \o e.msg
                    /\ is_correct' = FALSE
                    /\ retries' = retries + 1
                    /\ pc' = "loop"
                    /\ ret' = ret
               ELSE ReturnAnswer(e.result)
    /\ clock' = clock + 1
    /\ UNCHANGED <<context, fault, sql_response, evaluation, synthCalls, verifyCalls>>

\* Mutant of Reject: the verdict's feedback is not taken over, so the next
\* prompt carries the feedback of an earlier attempt.
Reject_StaleFeedback ==
    /\ pc = "branch"
    /\ ~Approved
    /\ feedback' = feedback
    /\ is_correct' = evaluation.is_correct
    /\ retries' = retries + 1
    /\ pc' = "loop"
    /\ UNCHANGED <<context, fault, clock, db, sql_response, evaluation, ret,
                   synthCalls, verifyCalls, execCalls>>

\* Mutant of Reject: the flag is set to the negated verdict, so a rejection
\* ends the loop.
Reject_NegatedFlag ==
    /\ pc = "branch"
    /\ ~Approved
    /\ feedback' = evaluation.feedback
    /\ is_correct' = ~evaluation.is_correct
    /\ retries' = retries + 1
    /\ pc' = "loop"
    /\ UNCHANGED <<context, fault, clock, db, sql_response, evaluation, ret,
                   synthCalls, verifyCalls, execCalls>>

\* else: feedback and is_correct from the verdict, retries += 1.
Reject ==
    /\ pc = "branch"
    /\ ~Approved
    /\ feedback' = evaluation.feedback
    /\ is_correct' = evaluation.is_correct
    /\ retries' = retries + 1
    /\ pc' = "loop"
    /\ UNCHANGED <<context, fault, clock, db, sql_response, evaluation, ret,
                   synthCalls, verifyCalls, execCalls>>

\* Mutant of ReturnError: the failure return also carries an answer text.
ReturnError_WithAnswer ==
    /\ pc = "loop"
    /\ ~LoopCondition
    /\ ret' = [tool_error |-> TRUE, tool_answer |-> <<>>]
    /\ pc' = "done"
    /\ UNCHANGED <<context, fault, clock, db, is_correct, retries, feedback, sql_response,
                   evaluation, synthCalls, verifyCalls, execCalls>>

\* The while loop is left: return {"tool_error": True}
ReturnError ==
    /\ pc = "loop"
    /\ ~LoopCondition
    /\ ret' = [tool_error |-> TRUE]
    /\ pc' = "done"
    /\ UNCHANGED <<context, fault, clock, db, is_correct, retries, feedback, sql_response,
                   evaluation, synthCalls, verifyCalls, execCalls>>

Next ==
    \/ Generate \/ SynthesisFault
    \/ Verify \/ VerificationFault
    \/ Execute \/ Reject \/ ReturnError

Spec == Init /\ [][Next]_vars

\* sql_query runs on one thread to its end: a step that can be taken is taken.
LiveSpec == Spec /\ WF_vars(Next)

\* ------------------------------------------------- reading the histories
\* An execution that handed back a Row Set: nothing raised, no error str.
ExecSucceeded(c) == ~c.raised /\ ~c.result.isStr

\* The diagnostic of an execution that did not succeed.
Diagnostic(c) ==
    IF c.raised THEN c.msg
    ELSE SubSeq(c.result.str, Len(ERR_PREFIX) + 1, Len(c.result.str))

EndsWith(s, suffix) ==
    Len(suffix) <= Len(s) /\ MatchAt(s, Len(s) - Len(suffix) + 1, suffix)

Contains(s, pat) == \E i \in 1..Len(s) : MatchAt(s, i, pat)

Returned == pc = "done"
HasAnswer == "tool_answer" \in DOMAIN ret
HasErrorFlag == "tool_error" \in DOMAIN ret

\* The latest execution belongs to the latest generation attempt.
LastExecIsCurrent ==
    Len(execCalls) > 0 /\ execCalls[Len(execCalls)].attempt = Len(synthCalls)

\* ---------------------------------------------------------------- claims

\* C1 (retry bound): a run of sql_query in which no attempt ends in a
\* successful execution makes exactly max_retries Synthesizer calls and then
\* reports failure.
C1_RetryBound ==
    (Returned /\ \A i \in 1..Len(execCalls) : ~ExecSucceeded(execCalls[i]))
        => (Len(synthCalls) = max_retries /\ HasErrorFlag /\ ~HasAnswer)

\* C2 (execution failure is retried): when the Store fails to run the
\* approved query of the current attempt, sql_query does not finish with an
\* answer in that attempt; the diagnostic is in the feedback for the next
\* GENERATE step, the retry counter has been incremented and the loop goes
\* on while the counter is below max_retries.
C2_ExecutionFailureRetried ==
    (LastExecIsCurrent /\ ~ExecSucceeded(execCalls[Len(execCalls)]))
        => /\ ~HasAnswer
           /\ retries = execCalls[Len(execCalls)].attempt
           /\ EndsWith(feedback, Diagnostic(execCalls[Len(execCalls)]))
           /\ (retries < max_retries => pc = "loop" /\ LoopCondition)

\* C3 (failures are never surfaced raw): an answer text is the Result
\* Formatter's rendering of the Row Set of a successful execution, never an
\* execution error diagnostic.
C3_AnswerIsFormattedRowSet ==
    HasAnswer =>
        /\ LastExecIsCurrent
        /\ ExecSucceeded(execCalls[Len(execCalls)])
        /\ ret.tool_answer =
               FormatResult(ListResult(execCalls[Len(execCalls)].result.rows))

\* C4 (tenant isolation): every executed (approved, substituted) query
\* returns only rows whose user_id column equals the invocation's tenant.
C4_TenantIsolation ==
    \A i \in 1..Len(execCalls) :
        LET rows == execCalls[i].result.rows
        IN \A r \in 1..Len(rows) : \A c \in 1..Len(rows[r]) :
              rows[r][c].key = C_user_id => rows[r][c].value.n = user_id

\* The candidate the Synthesizer produced in the attempt of execution c.
CandidateOf(c) == synthCalls[c.attempt].sql_query

\* C5 (execution is gated by approval): every call of the Store's execution
\* primitive happens in an iteration whose verdict has is_correct = TRUE,
\* and what it runs is the candidate generated and verified in that same
\* iteration, with the placeholder replaced.
C5_ExecutionGatedByApproval ==
    \A i \in 1..Len(execCalls) :
        LET c == execCalls[i]
        IN /\ c.attempt \in 1..Len(verifyCalls)
           /\ c.approved
           /\ verifyCalls[c.attempt].is_correct
           /\ verifyCalls[c.attempt].sql_query = CandidateOf(c)
           /\ c.query = StrReplace(CandidateOf(c), PLACEHOLDER, StrInt(user_id))
           /\ \A j \in 1..(i - 1) : execCalls[j].attempt < c.attempt

\* Witness of C5: an execution in a later iteration, after the first
\* iteration's different candidate was rejected.
C5_Witness ==
    \E i \in 1..Len(execCalls) :
        /\ execCalls[i].attempt >= 2
        /\ ~verifyCalls[1].is_correct
        /\ synthCalls[1].sql_query # CandidateOf(execCalls[i])

\* The execution call of attempt k, if there is one.
ExecOfAttempt(k) == {i \in 1..Len(execCalls) : execCalls[i].attempt = k}

\* C6 as stated (feedback propagation): the feedback given to generation
\* attempt k+1 equals the feedback of attempt k's verdict if attempt k was
\* rejected, or the execution error message if attempt k's execution failed.
C6_FeedbackIsVerdictOrErrorMessage ==
    \A k \in 1..(Len(synthCalls) - 1) :
        IF ~verifyCalls[k].is_correct
        THEN synthCalls[k + 1].feedback = verifyCalls[k].feedback
        ELSE \E i \in ExecOfAttempt(k) :
                /\ ~ExecSucceeded(execCalls[i])
                /\ synthCalls[k + 1].feedback = Diagnostic(execCalls[i])

\* C6 as amended: the feedback given to generation attempt k+1 equals the
\* feedback of attempt k's verdict if attempt k was rejected; otherwise
\* attempt k's execution raised an exception e and the feedback is
\* "The SQL query failed to execute. Error: " followed by str(e). It is
\* never what an earlier attempt left.
C6_FeedbackIsVerdictOrPrefixedError ==
    \A k \in 1..(Len(synthCalls) - 1) :
        IF ~verifyCalls[k].is_correct
        THEN synthCalls[k + 1].feedback = verifyCalls[k].feedback
        ELSE \E i \in ExecOfAttempt(k) :
                /\ execCalls[i].raised
                /\ synthCalls[k + 1].feedback = FEEDBACK_PREFIX \o execCalls[i].msg

\* Witness of C6: a third attempt whose feedback comes from the second
\* attempt's failed execution, not from the first attempt's rejection.
C6_Witness ==
    /\ Len(synthCalls) >= 3
    /\ ~verifyCalls[1].is_correct
    /\ verifyCalls[1].feedback # <<>>
    /\ verifyCalls[2].is_correct
    /\ synthCalls[3].feedback # synthCalls[2].feedback

\* C7 (terminal outcomes are exclusive): sql_query returns either the error
\* flag alone (exactly when the retry bound was reached) or an answer text
\* alone (when an execution came back without raising), never both.
C7_TerminalOutcomesExclusive ==
    /\ ~Returned => DOMAIN ret = {}
    /\ Returned =>
          \/ DOMAIN ret = {"tool_error"} /\ ret.tool_error = TRUE
          \/ DOMAIN ret = {"tool_answer"}
    /\ (Returned /\ retries = max_retries) => DOMAIN ret = {"tool_error"}
    /\ (Returned /\ HasErrorFlag) =>
          /\ retries = max_retries
          /\ \A i \in 1..Len(execCalls) : execCalls[i].raised
    /\ (Returned /\ LastExecIsCurrent /\ ~execCalls[Len(execCalls)].raised)
          => DOMAIN ret = {"tool_answer"}

\* Witness of C7: the retry bound reached through a rejection and a raised
\* execution, ending with the error flag.
C7_Witness ==
    /\ Returned
    /\ HasErrorFlag
    /\ \E i \in 1..Len(execCalls) : execCalls[i].raised
    /\ \E k \in 1..Len(verifyCalls) : ~verifyCalls[k].is_correct

\* C8 (single-attempt success): when the first candidate is approved and
\* executes successfully, sql_query has made exactly one Synthesizer call,
\* one Verifier call and one execution call and has returned the formatted
\* answer.
C8_SingleAttemptSuccess ==
    ( /\ Len(verifyCalls) >= 1
      /\ verifyCalls[1].is_correct
      /\ Len(execCalls) >= 1
      /\ execCalls[1].attempt = 1
      /\ ExecSucceeded(execCalls[1]) )
    => /\ Returned
       /\ Len(synthCalls) = 1
       /\ Len(verifyCalls) = 1
       /\ Len(execCalls) = 1
       /\ DOMAIN ret = {"tool_answer"}
       /\ ret.tool_answer = FormatResult(execCalls[1].result)

\* Witness of C8: the first candidate approved and executed, one row back.
C8_Witness ==
    /\ Len(execCalls) = 1
    /\ execCalls[1].attempt = 1
    /\ ExecSucceeded(execCalls[1])
    /\ Len(execCalls[1].result.rows) = 1
    /\ Returned

\* C9 (placeholder substitution ordering): each executed query is its
\* attempt's candidate with every <user_id> word replaced by the decimal
\* tenant identifier, made after that attempt's verdict and at most once
\* per candidate; the Verifier is shown the candidate as generated, and so
\* is the next Synthesizer call.
C9_SubstitutionOnlyForExecution ==
    /\ \A i \in 1..Len(execCalls) :
          LET c == execCalls[i]
              cw == Words(CandidateOf(c))
              qw == Words(c.query)
          IN /\ Len(qw) = Len(cw)
             /\ \A w \in 1..Len(cw) :
                   qw[w] = IF cw[w] = PLACEHOLDER THEN StrInt(user_id) ELSE cw[w]
             /\ ~Contains(c.query, PLACEHOLDER)
             /\ c.attempt <= Len(verifyCalls)
             /\ \A j \in 1..Len(execCalls) : j # i => execCalls[j].attempt # c.attempt
    /\ \A k \in 1..Len(verifyCalls) : verifyCalls[k].sql_query = synthCalls[k].sql_query
    /\ \A k \in 2..Len(synthCalls) :
          synthCalls[k].previous_response = synthCalls[k - 1].sql_query

\* Witness of C9: a candidate holding the placeholder is executed in a
\* second or later attempt, after a candidate holding it was passed back.
C9_Witness ==
    \E i \in 1..Len(execCalls) :
        /\ execCalls[i].attempt >= 2
        /\ Contains(CandidateOf(execCalls[i]), PLACEHOLDER)
        /\ Contains(synthCalls[execCalls[i].attempt].previous_response, PLACEHOLDER)

\* C10 (read-only store): execute_readonly_query leaves the store's
\* contents and schema as they were, whatever the query.
C10_StoreUnchanged == db = InitialDb

\* The Row Set of the execution that ended the run with an answer.
AnsweredRows == execCalls[Len(execCalls)].result.rows
AnsweredFromRows ==
    Returned /\ HasAnswer /\ LastExecIsCurrent /\ ExecSucceeded(execCalls[Len(execCalls)])

\* C11 (formatter, one row): for a Row Set of exactly one row the answer is
\* the row's "column: value" pairs in column order joined by " | ", followed
\* by one newline, every name and value unaltered.
C11_OneRowPairsJoined ==
    (AnsweredFromRows /\ Len(AnsweredRows) = 1) =>
        ret.tool_answer =
            JoinSeq([c \in 1..Len(AnsweredRows[1]) |->
                        AnsweredRows[1][c].key \o <<":", " ">>
                            \o StrValue(AnsweredRows[1][c].value)],
                    SEP) \o <<"\n">>

\* C12 (formatter, zero and many rows): a successful execution always ends
\* the run with an answer and costs no retry; with zero rows the answer is
\* exactly "No results found."; with more than one row the answer is a
\* bracketed rendering that contains every column name and every value of
\* every row.
C12_ZeroAndManyRows ==
    (LastExecIsCurrent /\ ExecSucceeded(execCalls[Len(execCalls)])) =>
        /\ Returned /\ HasAnswer /\ ~HasErrorFlag
        /\ retries = Len(synthCalls) - 1
        /\ Len(AnsweredRows) = 0 => ret.tool_answer = NO_RESULTS
        /\ Len(AnsweredRows) > 1 =>
              /\ ret.tool_answer[1] = "["
              /\ ret.tool_answer[Len(ret.tool_answer)] = "]"
              /\ \A r \in 1..Len(AnsweredRows) : \A c \in 1..Len(AnsweredRows[r]) :
                    /\ Contains(ret.tool_answer, AnsweredRows[r][c].key)
                    /\ Contains(ret.tool_answer, StrValue(AnsweredRows[r][c].value))

\* Witness of C12: zero rows come back in a second attempt and end the run
\* with the literal.
C12_Witness ==
    /\ AnsweredFromRows
    /\ Len(AnsweredRows) = 0
    /\ retries = 1
    /\ ret.tool_answer = NO_RESULTS

\* The attempts the Verifier rejected, and the executions that raised.
Rejections == {k \in 1..Len(verifyCalls) : ~verifyCalls[k].is_correct}
RaisedExecs == {i \in 1..Len(execCalls) : execCalls[i].raised}
FailedExecs == {i \in 1..Len(execCalls) : ~ExecSucceeded(execCalls[i])}
Faulted == pc = "fault"

\* C13 (generation faults propagate): a Synthesizer or Verifier call that
\* raises ends the invocation at once: nothing is returned (no answer text,
\* no error flag), the retry counter is not touched, nothing is executed in
\* that iteration and no further step is taken.
C13_FaultsPropagate ==
    /\ fault # "" => Faulted
    /\ Faulted =>
          /\ fault \in {"SynthesisFault", "VerificationFault"}
          /\ DOMAIN ret = {}
          /\ retries = Cardinality(Rejections) + Cardinality(RaisedExecs)
          /\ retries = Len(verifyCalls)
          /\ \A i \in 1..Len(execCalls) : execCalls[i].attempt <= retries
          /\ ~ENABLED Next

\* Witness of C13: the Verifier call of a later attempt raises, after an
\* execution of an earlier attempt.
C13_Witness ==
    /\ Faulted
    /\ fault = "VerificationFault"
    /\ retries >= 1
    /\ Len(execCalls) >= 1

\* C14 (verifier feedback is non-empty on rejection): after a rejection the
\* feedback carried into the next generation attempt is a non-empty string.
C14_RejectionFeedbackNonEmpty ==
    \A k \in 1..(Len(synthCalls) - 1) :
        ~verifyCalls[k].is_correct => synthCalls[k + 1].feedback # <<>>

\* C15 (one shared counter): whenever an iteration starts the retry counter
\* equals the number of Synthesizer calls and of Verifier calls made so far
\* and is below max_retries; between iterations and at the end it equals
\* the number of rejections plus the number of execution failures, and the
\* failure flag is returned exactly when that sum reached max_retries.
C15_OneSharedCounter ==
    /\ (pc = "loop" /\ LoopCondition) =>
          /\ retries = Len(synthCalls)
          /\ retries = Len(verifyCalls)
          /\ retries \in 0..(max_retries - 1)
    /\ pc \in {"loop", "done"} =>
          retries = Cardinality(Rejections) + Cardinality(FailedExecs)
    /\ Returned => (HasErrorFlag <=> retries = max_retries)

\* C16 (termination): at most max_retries iterations are made, and unless a
\* collaborator call raises, sql_query returns (DONE or FAILED).
C16_Termination ==
    /\ [](Len(synthCalls) <= max_retries)
    /\ <>(Returned \/ Faulted)

\* Witness of C16: sql_query has returned after max_retries iterations.
C16_Witness == Returned /\ Len(synthCalls) = max_retries /\ fault = ""

\* What attempt k left as feedback: the verdict's, or the text built from
\* the exception its execution raised.
AttemptFeedback(k) ==
    IF ~verifyCalls[k].is_correct THEN verifyCalls[k].feedback
    ELSE FEEDBACK_PREFIX \o execCalls[CHOOSE i \in ExecOfAttempt(k) : TRUE].msg

\* C17 (previous-attempt context): the first Synthesizer call gets an empty
\* previous candidate and empty feedback with the retry counter at 0; call
\* k+1 gets the candidate attempt k produced, as generated, together with
\* the feedback attempt k left, with the counter at k.
C17_PreviousAttemptContext ==
    /\ Len(synthCalls) >= 1 =>
          /\ synthCalls[1].previous_response = <<>>
          /\ synthCalls[1].feedback = <<>>
          /\ synthCalls[1].retries = 0
    /\ \A k \in 1..(Len(synthCalls) - 1) :
          /\ synthCalls[k + 1].previous_response = synthCalls[k].sql_query
          /\ synthCalls[k + 1].previous_response \in Candidates
          /\ synthCalls[k + 1].feedback = AttemptFeedback(k)
          /\ synthCalls[k + 1].retries = k

\* Witness of C17: a third call that is handed the second candidate, which
\* differs from the first and holds the placeholder.
C17_Witness ==
    /\ Len(synthCalls) = 3
    /\ synthCalls[2].sql_query # synthCalls[1].sql_query
    /\ synthCalls[3].previous_response = synthCalls[2].sql_query
    /\ Contains(synthCalls[3].previous_response, PLACEHOLDER)

\* C18 (fixed context): every Synthesizer and Verifier call of the
\* invocation is given the same conversation, schema description and
\* current-time value (the Synthesizer also the same field catalog, the
\* Verifier the question, which is the last message); they are the values
\* set before the first attempt, and every execution substitutes the one
\* tenant identifier.
C18_FixedContext ==
    /\ messages = <<USER_QUESTION>>
    /\ db_schema = get_db_schema(InitialDb)
    /\ db_description = get_db_description
    /\ \A k \in 1..Len(synthCalls) :
          /\ synthCalls[k].messages = messages
          /\ synthCalls[k].schema = db_schema
          /\ synthCalls[k].db_description = db_description
          /\ synthCalls[k].current_time_ms = curreent_time_ms
          /\ synthCalls[k].current_time_ms = synthCalls[1].current_time_ms
    /\ \A k \in 1..Len(verifyCalls) :
          /\ verifyCalls[k].messages = messages
          /\ verifyCalls[k].user_message = messages[Len(messages)]
          /\ verifyCalls[k].schema = db_schema
          /\ verifyCalls[k].current_time_ms = synthCalls[1].current_time_ms
    /\ \A i \in 1..Len(execCalls) :
          Contains(CandidateOf(execCalls[i]), PLACEHOLDER)
              => Contains(execCalls[i].query, StrInt(user_id))

\* Witness of C18: three Synthesizer and three Verifier calls were made
\* while the clock moved on.
C18_Witness ==
    /\ Len(synthCalls) = max_retries
    /\ Len(verifyCalls) = max_retries
    /\ clock > curreent_time_ms + max_retries

\* C19 (the loop flag): is_correct is FALSE whenever the loop condition is
\* evaluated (it is never TRUE at all), so the error return happens only
\* with the retry counter at max_retries, an answer is returned only after
\* an execution of the current attempt, and every approving verdict is
\* followed by an execution call.
C19_FlagNeverTrue ==
    /\ is_correct = FALSE
    /\ (Returned /\ HasErrorFlag) => retries = max_retries
    /\ (Returned /\ HasAnswer) => LastExecIsCurrent
    /\ \A k \in 1..Len(verifyCalls) :
          (verifyCalls[k].is_correct /\ (k < Len(verifyCalls) \/ pc \in {"loop", "done"}))
              => ExecOfAttempt(k) # {}

\* Witness of C19: the loop condition is evaluated again after an approving
\* verdict whose execution raised.
C19_Witness ==
    /\ pc = "loop"
    /\ retries >= 1
    /\ verifyCalls[retries].is_correct

====
